---- MODULE Spec2Model ----
(***************************************************************************)
(* Query-time core of the SearchIt gateway: the rate limiter and the ask   *)
(* handler (routes/ask.py), the answer generator (rag/generator.py), the   *)
(* reranker (rag/reranker.py), RRF fusion and search (rag/retriever.py,    *)
(* routes/search.py, adapters/opensearch.py, adapters/qdrant.py) and the   *)
(* feedback handler (routes/feedback.py, adapters/postgres.py, kafka.py).  *)
(*                                                                         *)
(* Conventions                                                             *)
(*   - time.time() is modelled in whole seconds and never goes backwards.  *)
(*   - rerank scores are in hundredths (0.3 is 30).                        *)
(*   - a Python dict is a TLA+ record whose DOMAIN is the dict's key set;  *)
(*     d.get(k, default) is Get(d, k, default).                            *)
(*   - a fusion score 1/(rrf_k + rank) is kept exactly, as a multiple of   *)
(*     1/ScoreScale.                                                       *)
(***************************************************************************)
EXTENDS Integers, Sequences, FiniteSets, TLC

VARIABLES
    now,              \* the clock read by time.time()
    requests,         \* RateLimiter.requests: client -> deque of timestamps
    admitted,         \* history of the direct calls: client -> admission times
    req,              \* the ask request in the handler (its local variables)
    ABSTAIN_COUNTER,  \* rag_abstain_total, by reason label
    limit,            \* a direct call of RateLimiter.is_allowed
    gen,              \* a direct call of AnswerGenerator.generate
    fuse,             \* a direct call of HybridRetriever._rrf_fuse
    srch,             \* the search request in the handler (its local variables)
    rr,               \* direct calls of CEReranker.rerank on one reranker
    fb,               \* the feedback request in the handler
    feedback,         \* the rows of the feedback table, in insertion order
    bus,              \* the events produced to Kafka, in order
    loop              \* the event loop: the ask coroutines, the one running

vars == <<now, requests, admitted, req, ABSTAIN_COUNTER, limit, gen, fuse,
          srch, rr, fb, feedback, bus, loop>>

(***************************************************************************)
(* Bounds of the model                                                     *)
(***************************************************************************)
MaxTime == 121        \* the clock stops advancing here

Clients == {"10.0.0.1"}

MaxTasks == 2         \* ask coroutines alive on the event loop at a time
Tasks == 1..MaxTasks

\* Amounts by which the clock advances between two steps.
TickSteps == {30, 59, 60}

(***************************************************************************)
(* Python helpers                                                          *)
(***************************************************************************)
None == "None"

Get(d, k, default) == IF k \in DOMAIN d THEN d[k] ELSE default

Min(a, b) == IF a <= b THEN a ELSE b
Max(a, b) == IF a >= b THEN a ELSE b

\* s[:k] for a list s and an int k (a negative k counts from the end).
Slice(s, k) ==
    IF k >= 0 THEN SubSeq(s, 1, Min(k, Len(s)))
    ELSE SubSeq(s, 1, Max(Len(s) + k, 0))

(***************************************************************************)
(* RateLimiter (routes/ask.py)                                             *)
(***************************************************************************)
rate == 10
window == 60

\* while client_requests and client_requests[0] <= now - window: popleft()
RECURSIVE Evict(_, _)
Evict(q, t) ==
    IF q # <<>> /\ Head(q) <= t - window THEN Evict(Tail(q), t) ELSE q

\* is_allowed that records the timestamp of a denied request as well.
is_allowed_records_denied(reqs, client_ip, t) ==
    LET client_requests == Evict(reqs[client_ip], t)
    IN  [allowed |-> Len(client_requests) < rate,
         requests |-> [reqs EXCEPT ![client_ip] = Append(client_requests, t)]]

\* is_allowed with <= for <: admits while the deque holds up to rate entries.
is_allowed_off_by_one(reqs, client_ip, t) ==
    LET client_requests == Evict(reqs[client_ip], t)
    IN  IF Len(client_requests) <= rate
        THEN [allowed |-> TRUE,
              requests |-> [reqs EXCEPT ![client_ip] = Append(client_requests, t)]]
        ELSE [allowed |-> FALSE,
              requests |-> [reqs EXCEPT ![client_ip] = client_requests]]

\* RateLimiter.is_allowed at clock reading t: the result and the new mapping.
is_allowed(reqs, client_ip, t) ==
    LET client_requests == Evict(reqs[client_ip], t)
    IN  IF Len(client_requests) < rate
        THEN [allowed |-> TRUE,
              requests |-> [reqs EXCEPT ![client_ip] = Append(client_requests, t)]]
        ELSE [allowed |-> FALSE,
              requests |-> [reqs EXCEPT ![client_ip] = client_requests]]

(***************************************************************************)
(* Sorting: sorted(xs, key=..., reverse=True) is stable, so elements with  *)
(* equal keys keep their input order.                                      *)
(***************************************************************************)
\* InsertDesc with > for >=: i goes before the placed indices of equal key,
\* so elements with equal keys come out in reverse input order.
RECURSIVE InsertDesc_ties_reversed(_, _, _)
InsertDesc_ties_reversed(order, i, keys) ==
    IF order = <<>> THEN <<i>>
    ELSE IF keys[Head(order)] > keys[i]
         THEN <<Head(order)>> \o InsertDesc_ties_reversed(Tail(order), i, keys)
         ELSE <<i>> \o order

\* order: indices already placed, by key descending; i goes after every
\* placed index whose key is >= keys[i].
RECURSIVE InsertDesc(_, _, _)
InsertDesc(order, i, keys) ==
    IF order = <<>> THEN <<i>>
    ELSE IF keys[Head(order)] >= keys[i]
         THEN <<Head(order)>> \o InsertDesc(Tail(order), i, keys)
         ELSE <<i>> \o order

RECURSIVE StableDescOrder(_, _)
StableDescOrder(keys, n) ==
    IF n = 0 THEN <<>> ELSE InsertDesc(StableDescOrder(keys, n - 1), n, keys)

\* SortedDesc without reverse=True: by key ascending.
SortedAsc(s, keys) ==
    LET order == StableDescOrder(keys, Len(s))
    IN  [i \in 1..Len(s) |-> s[order[Len(s) + 1 - i]]]

\* sorted(s, key=lambda x: keys[index of x], reverse=True)
SortedDesc(s, keys) ==
    LET order == StableDescOrder(keys, Len(s))
    IN  [i \in 1..Len(s) |-> s[order[i]]]

(***************************************************************************)
(* AnswerGenerator (rag/generator.py)                                      *)
(***************************************************************************)
coverage_threshold == 30     \* 0.3, in hundredths
stub_contexts == 3           \* contexts[:3]
stub_truncate == 200         \* text[:200], min(len(text), 200)
coverage_contexts == 5       \* len(contexts) / 5.0
generator_type == "stub"     \* settings.generator

\* str(i) for the indices the stub enumerates.
Str(i) == <<"0", "1", "2", "3", "4", "5", "6", "7", "8", "9">>[i + 1]

RECURSIVE MaxOf(_)
MaxOf(s) == IF Len(s) = 1 THEN Head(s) ELSE Max(Head(s), MaxOf(Tail(s)))

\* max(context.get("rerank_score", 0.0) for context in contexts)
MaxRerankScore(contexts) ==
    MaxOf([i \in 1..Len(contexts) |-> Get(contexts[i], "rerank_score", 0)])

\* _is_answerable with > for >=.
_is_answerable_strict(contexts) ==
    IF contexts = <<>> THEN FALSE
    ELSE MaxRerankScore(contexts) > coverage_threshold

_is_answerable(contexts) ==
    IF contexts = <<>> THEN FALSE
    ELSE MaxRerankScore(contexts) >= coverage_threshold

\* text[:200] + "..." if len(text) > 200 else text
Truncated(text) ==
    IF Len(text) > stub_truncate
    THEN SubSeq(text, 1, stub_truncate) \o "..."
    ELSE text

\* " ".join(parts)
RECURSIVE Join(_)
Join(parts) ==
    IF parts = <<>> THEN ""
    ELSE IF Len(parts) = 1 THEN Head(parts)
    ELSE Head(parts) \o " " \o Join(Tail(parts))

\* The loop of _generate_stub_answer over enumerate(contexts[:3]), up to and
\* including index n - 1: the answer parts and the citations collected.
RECURSIVE StubLoop(_, _)
StubLoop(top, n) ==
    IF n = 0 THEN [answer_parts |-> <<>>, citations |-> <<>>]
    ELSE LET acc == StubLoop(top, n - 1)
             i == n - 1
             text == Get(top[n], "text", "")
         IN  IF text # ""
             THEN [answer_parts |->
                       Append(acc.answer_parts,
                              "Based on the available information: " \o Truncated(text)),
                   citations |->
                       Append(acc.citations,
                              [chunk_id |-> "chunk_" \o Str(i),
                               span |-> [start |-> 0,
                                         end |-> Min(Len(text), stub_truncate)]])]
             ELSE acc

\* _generate_stub_answer without its else branch: answers even when no
\* context had any text.
_generate_stub_answer_always(contexts) ==
    LET top == Slice(contexts, stub_contexts)
        acc == StubLoop(top, Len(top))
    IN  [abstained |-> FALSE,
         answer |-> Join(acc.answer_parts),
         citations |-> acc.citations,
         evidence_coverage |-> Min(Len(contexts), coverage_contexts)]

\* evidence_coverage is in fifths: min(len(contexts) / 5.0, 1.0).
_generate_stub_answer(contexts) ==
    LET top == Slice(contexts, stub_contexts)
        acc == StubLoop(top, Len(top))
    IN  IF acc.answer_parts # <<>>
        THEN [abstained |-> FALSE,
              answer |-> Join(acc.answer_parts),
              citations |-> acc.citations,
              evidence_coverage |-> Min(Len(contexts), coverage_contexts)]
        ELSE [abstained |-> TRUE, reason |-> "no_context"]

_generate_hf_answer(contexts) == _generate_stub_answer(contexts)

\* re.findall(...) is computed and dropped; the function returns True.
_validate_citations(answer, contexts) == TRUE

\* AnswerGenerator.generate: the returned dict, the labels by which
\* ABSTAIN_COUNTER was incremented (in order), and the dicts the synthesizer
\* returned (none when it was not invoked).
generate(contexts, force_citations) ==
    IF ~_is_answerable(contexts)
    THEN [result |-> [abstained |-> TRUE, reason |-> "low_coverage"],
          incs |-> <<"low_coverage">>,
          synthesized |-> <<>>]
    ELSE LET answer_result ==
                 IF generator_type = "stub" THEN _generate_stub_answer(contexts)
                 ELSE IF generator_type = "hf" THEN _generate_hf_answer(contexts)
                 ELSE _generate_stub_answer(contexts)
         IN  IF /\ force_citations
                /\ ~Get(answer_result, "abstained", FALSE)
                /\ ~_validate_citations(Get(answer_result, "answer", ""), contexts)
             THEN [result |-> [abstained |-> TRUE, reason |-> "validation_fail"],
                   incs |-> <<"validation_fail">>,
                   synthesized |-> <<answer_result>>]
             ELSE [result |-> answer_result,
                   incs |-> <<>>,
                   synthesized |-> <<answer_result>>]

(***************************************************************************)
(* CitationManager (rag/citations.py)                                      *)
(***************************************************************************)
validate_citation_spans(citation, context_text) ==
    LET span == Get(citation, "span", [start |-> 0, end |-> 0])
        start == Get(span, "start", 0)
        end == Get(span, "end", 0)
    IN  ~(start < 0 \/ end > Len(context_text) \/ start >= end)

(***************************************************************************)
(* CEReranker (rag/reranker.py)                                            *)
(*                                                                         *)
(* self.model is NoModel when _load_model failed. A loaded model either    *)
(* raises in predict or scores each (query, candidate) pair; the score of  *)
(* a pair depends on the candidate text alone, the query being fixed.      *)
(***************************************************************************)
NoModel == [loaded |-> FALSE]

\* Fallback without the cut to top_k.
Fallback_untruncated(candidates, top_k) ==
    [i \in 1..Len(candidates) |-> [text |-> candidates[i], rerank_score |-> 0]]

\* Fallback with a score above the coverage threshold.
Fallback_full_score(candidates, top_k) ==
    LET kept == Slice(candidates, top_k)
    IN  [i \in 1..Len(kept) |-> [text |-> kept[i], rerank_score |-> 100]]

Fallback(candidates, top_k) ==
    LET kept == Slice(candidates, top_k)
    IN  [i \in 1..Len(kept) |-> [text |-> kept[i], rerank_score |-> 0]]

\* rerank whose except branch returns no candidates.
rerank_empty_on_failure(model, candidates, top_k) ==
    IF ~model.loaded \/ candidates = <<>>
    THEN [i \in 1..Len(Slice(candidates, top_k)) |->
             [text |-> candidates[i], rerank_score |-> 0]]
    ELSE IF model.raises THEN <<>>
    ELSE LET scored_candidates ==
                 [i \in 1..Len(candidates) |->
                     [text |-> candidates[i],
                      rerank_score |-> model.score[candidates[i]]]]
             keys == [i \in 1..Len(candidates) |-> scored_candidates[i].rerank_score]
         IN  Slice(SortedDesc(scored_candidates, keys), top_k)

rerank(model, candidates, top_k) ==
    IF ~model.loaded \/ candidates = <<>> THEN Fallback(candidates, top_k)
    ELSE IF model.raises THEN Fallback(candidates, top_k)
    ELSE LET scored_candidates ==
                 [i \in 1..Len(candidates) |->
                     [text |-> candidates[i],
                      rerank_score |-> model.score[candidates[i]]]]
             keys == [i \in 1..Len(candidates) |-> scored_candidates[i].rerank_score]
         IN  Slice(SortedDesc(scored_candidates, keys), top_k)

(***************************************************************************)
(* HybridRetriever._rrf_fuse (rag/retriever.py)                            *)
(***************************************************************************)
rrf_k == 60
MaxListLen == 2       \* longest result list a backend returns in the model
NoRank == 0           \* bm25_rank / dense_rank None (ranks are 1-based)

RECURSIVE GCD(_, _)
GCD(a, b) == IF b = 0 THEN a ELSE GCD(b, a % b)
LCM(a, b) == (a * b) \div GCD(a, b)

\* Least common multiple of rrf_k + 1 .. rrf_k + n.
RECURSIVE ScaleUpTo(_)
ScaleUpTo(n) == IF n = 0 THEN 1 ELSE LCM(ScaleUpTo(n - 1), rrf_k + n)
ScoreScale == ScaleUpTo(MaxListLen)

\* RrfTerm with the ranks counted from the end of the longest list: the
\* term grows with the rank.
RrfTerm_reversed(rank) == ScoreScale \div (rrf_k + MaxListLen + 1 - rank)

\* 1.0 / (self.rrf_k + rank), as a multiple of 1/ScoreScale.
RrfTerm(rank) == ScoreScale \div (rrf_k + rank)

\* key = f"{doc_id}:{chunk_id}"
RrfKey(result) == result.doc_id \o ":" \o result.chunk_id

\* No two hits of the list have the same fusion key.
NoRepeatedKey(list) ==
    \A i, j \in 1..Len(list) : i # j => RrfKey(list[i]) # RrfKey(list[j])

\* KeyIndex that finds no key: every occurrence becomes an entry of its own.
KeyIndex_absent(scores, key) == 0

\* The dict scores as its items in insertion order; 0 when key is absent.
KeyIndex(scores, key) ==
    IF \E i \in 1..Len(scores) : scores[i].key = key
    THEN CHOOSE i \in 1..Len(scores) : scores[i].key = key
    ELSE 0

\* The first loop, over enumerate(bm25_results, 1), up to rank n.
RECURSIVE Bm25Loop(_, _)
Bm25Loop(bm25_results, n) ==
    IF n = 0 THEN <<>>
    ELSE LET scores == Bm25Loop(bm25_results, n - 1)
             result == bm25_results[n]
             key == RrfKey(result)
             at == KeyIndex(scores, key)
             fresh == [key |-> key,
                       doc_id |-> result.doc_id,
                       chunk_id |-> result.chunk_id,
                       text |-> Get(result, "text", ""),
                       score |-> 0,
                       bm25_rank |-> n,
                       dense_rank |-> NoRank,
                       bm25_score |-> Get(result, "score", 0),
                       dense_score |-> 0]
             got == IF at = 0 THEN Append(scores, fresh) ELSE scores
             j == IF at = 0 THEN Len(got) ELSE at
         IN  [got EXCEPT ![j].score = @ + RrfTerm(n)]

\* The second loop, over enumerate(dense_results, 1), up to rank n.
RECURSIVE DenseLoop(_, _, _)
DenseLoop(start, dense_results, n) ==
    IF n = 0 THEN start
    ELSE LET scores == DenseLoop(start, dense_results, n - 1)
             result == dense_results[n]
             key == RrfKey(result)
             at == KeyIndex(scores, key)
         IN  IF at # 0
             THEN [scores EXCEPT ![at].score = @ + RrfTerm(n),
                                 ![at].dense_rank = n,
                                 ![at].dense_score = Get(result, "score", 0)]
             ELSE Append(scores,
                         [key |-> key,
                          doc_id |-> result.doc_id,
                          chunk_id |-> result.chunk_id,
                          text |-> Get(result, "text", ""),
                          score |-> RrfTerm(n),
                          bm25_rank |-> NoRank,
                          dense_rank |-> n,
                          bm25_score |-> 0,
                          dense_score |-> Get(result, "score", 0)])

\* scores.values(): the dict's values in insertion order, without the keys.
Values(scores) ==
    [i \in 1..Len(scores) |->
        [f \in DOMAIN scores[i] \ {"key"} |-> scores[i][f]]]

\* The dict scores after both loops, as (key, value) items in insertion order.
RrfScores(bm25_results, dense_results) ==
    DenseLoop(Bm25Loop(bm25_results, Len(bm25_results)),
              dense_results, Len(dense_results))

\* sorted(scores.values(), key=lambda x: x["score"], reverse=True)[:top_k]
_rrf_fuse(bm25_results, dense_results, top_k) ==
    LET values == Values(RrfScores(bm25_results, dense_results))
        keys == [i \in 1..Len(values) |-> values[i].score]
    IN  Slice(SortedDesc(values, keys), top_k)

(***************************************************************************)
(* Inputs of the model                                                     *)
(***************************************************************************)
MaxTopK == 2          \* largest top_k a request asks for
MaxCount == 1         \* cap on each ABSTAIN_COUNTER value
MaxContexts == 4      \* longest contexts list given to generate directly

\* Sequences over S of length 0..n.
SeqUpTo(S, n) == UNION {[1..k -> S] : k \in 0..n}

\* A text of n characters.
RECURSIVE TextOfLen(_)
TextOfLen(n) == IF n = 0 THEN "" ELSE TextOfLen(n - 1) \o "y"
LongText == TextOfLen(stub_truncate + 1)

\* Identifiers; two of the four (doc_id, chunk_id) pairs share the key "a:b:c".
DocIds == {"a", "a:b"}
ChunkIds == {"c", "b:c"}

\* What a backend hit carries for fusion: its identity, text and score.
Hits(texts, scores) ==
    [doc_id : DocIds, chunk_id : ChunkIds, text : texts, score : scores]

\* What a backend returns to an ask request: nothing (no match, or the
\* backend failed), or hits among two chunks, one with text and one without.
AskLists(score) ==
    LET h1 == [doc_id |-> "a", chunk_id |-> "c", text |-> "x", score |-> score]
        h2 == [doc_id |-> "a", chunk_id |-> "b:c", text |-> "", score |-> score]
    IN  {<<>>, <<h1>>, <<h2>>, <<h1, h2>>, <<h2, h1>>}

ModelScores == {29, 30}
Reasons == {"no_results", "low_coverage", "validation_fail", "no_context"}

\* The behaviours of a loaded cross-encoder on the given candidates.
LoadedModels(candidates) ==
    {[loaded |-> TRUE, raises |-> TRUE]} \cup
    {[loaded |-> TRUE, raises |-> FALSE, score |-> f] :
        f \in [{candidates[i] : i \in 1..Len(candidates)} -> ModelScores]}

(***************************************************************************)
(* The ask handler (routes/ask.py, ask_question) with the retriever's      *)
(* search (rag/retriever.py) inlined. One request is in the handler at a   *)
(* time; its steps are the stretches of code between two awaits.           *)
(***************************************************************************)
Idle == [pc |-> "idle"]
Pending == [done |-> FALSE]
Returned(results) == [done |-> TRUE, results |-> results]

\* AskResponse(**answer_result): the pydantic model with its defaults.
AskResponse(d) ==
    [answer |-> Get(d, "answer", None),
     citations |-> Get(d, "citations", <<>>),
     evidence_coverage |-> Get(d, "evidence_coverage", 0),
     abstained |-> Get(d, "abstained", FALSE),
     reason |-> Get(d, "reason", None)]

\* except Exception as e: raise HTTPException(status_code=500, ...).
\* HTTPException derives from Exception, so whatever the try body raises,
\* the handler's own HTTPException(429) included, leaves as a 500.
ExceptException(raised) == 500

Bump(counter, incs) ==
    [l \in DOMAIN counter |->
        counter[l] + Cardinality({i \in 1..Len(incs) : incs[i] = l})]

\* AskStart with the retrieval calls issued before the admission check.
AskStart_search_first(client_ip, top_k, ground, loaded) ==
    /\ req.pc = "idle"
    /\ LET r == is_allowed(requests, client_ip, now)
       IN  /\ requests' = r.requests
           /\ IF ~r.allowed
              THEN req' = [pc |-> "done", client |-> client_ip, top_k |-> top_k,
                           ground |-> ground, allowed |-> FALSE,
                           raised |-> <<429>>, status |-> ExceptException(429),
                           calls |-> {"lexical", "dense"}, incs |-> <<>>]
              ELSE req' = [pc |-> "retrieving", client |-> client_ip, top_k |-> top_k,
                           ground |-> ground, allowed |-> TRUE,
                           loaded |-> loaded,
                           bm25 |-> Pending, dense |-> Pending,
                           calls |-> {"CrossEncoder", "lexical", "dense"},
                           incs |-> <<>>]
    /\ UNCHANGED <<now, admitted, ABSTAIN_COUNTER, limit, gen, fuse,
                 srch, rr, fb, feedback, bus, loop>>

\* Lines 60-82 up to the first await: the admission check, then the
\* components are built (CEReranker() calls CrossEncoder(model_name), which
\* loads the model or fails to) and search issues both retrieval calls.
AskStart(client_ip, top_k, ground, loaded) ==
    /\ req.pc = "idle"
    /\ LET r == is_allowed(requests, client_ip, now)
       IN  /\ requests' = r.requests
           /\ IF ~r.allowed
              THEN req' = [pc |-> "done", client |-> client_ip, top_k |-> top_k,
                           ground |-> ground, allowed |-> FALSE,
                           raised |-> <<429>>, status |-> ExceptException(429),
                           calls |-> {}, incs |-> <<>>]
              ELSE req' = [pc |-> "retrieving", client |-> client_ip, top_k |-> top_k,
                           ground |-> ground, allowed |-> TRUE,
                           loaded |-> loaded,
                           bm25 |-> Pending, dense |-> Pending,
                           calls |-> {"CrossEncoder", "lexical", "dense"},
                           incs |-> <<>>]
    /\ UNCHANGED <<now, admitted, ABSTAIN_COUNTER, limit, gen, fuse,
                 srch, rr, fb, feedback, bus, loop>>

\* search_bm25 returns (an empty list when the backend fails).
LexicalReturn(results) ==
    /\ req.pc = "retrieving"
    /\ ~req.bm25.done
    /\ req' = [req EXCEPT !.bm25 = Returned(results)]
    /\ UNCHANGED <<now, requests, admitted, ABSTAIN_COUNTER, limit, gen, fuse,
                 srch, rr, fb, feedback, bus, loop>>

\* search_dense returns (an empty list when the backend fails).
DenseReturn(results) ==
    /\ req.pc = "retrieving"
    /\ ~req.dense.done
    /\ req' = [req EXCEPT !.dense = Returned(results)]
    /\ UNCHANGED <<now, requests, admitted, ABSTAIN_COUNTER, limit, gen, fuse,
                 srch, rr, fb, feedback, bus, loop>>

\* asyncio.gather has both results: fuse to top_k = 100 and ask for facets.
retrieval_top_k == 100
FuseAndFacets ==
    /\ req.pc = "retrieving"
    /\ req.bm25.done /\ req.dense.done
    /\ req' = [pc |-> "facets", client |-> req.client, top_k |-> req.top_k,
               ground |-> req.ground, allowed |-> TRUE, loaded |-> req.loaded,
               results |-> _rrf_fuse(req.bm25.results, req.dense.results,
                                     retrieval_top_k),
               calls |-> req.calls \cup {"facets"}, incs |-> <<>>]
    /\ UNCHANGED <<now, requests, admitted, ABSTAIN_COUNTER, limit, gen, fuse,
                 srch, rr, fb, feedback, bus, loop>>

\* Lines 84-115, after get_facets returned: no_results, or rerank and
\* generate, and the response.
AnswerWith(model) ==
    /\ req.pc = "facets"
    /\ IF req.results = <<>>
       THEN /\ req' = [pc |-> "done", client |-> req.client, top_k |-> req.top_k,
                       ground |-> req.ground, allowed |-> TRUE,
                       raised |-> <<>>, status |-> 200,
                       results |-> req.results, contexts |-> <<>>,
                       response |-> AskResponse([abstained |-> TRUE,
                                                 reason |-> "no_results"]),
                       calls |-> req.calls, incs |-> <<>>]
            /\ UNCHANGED ABSTAIN_COUNTER
       ELSE LET candidates == [i \in 1..Len(req.results) |-> req.results[i].text]
                reranked == rerank(model, candidates, req.top_k)
                g == generate(reranked, req.ground)
            IN  /\ req' = [pc |-> "done", client |-> req.client, top_k |-> req.top_k,
                           ground |-> req.ground, allowed |-> TRUE,
                           raised |-> <<>>, status |-> 200,
                           results |-> req.results, model |-> model,
                           contexts |-> reranked,
                           response |-> AskResponse(g.result),
                           calls |-> req.calls \cup {"rerank", "generate"},
                           incs |-> g.incs]
                /\ ABSTAIN_COUNTER' = Bump(ABSTAIN_COUNTER, g.incs)
                /\ \A l \in Reasons : ABSTAIN_COUNTER'[l] <= MaxCount
    /\ UNCHANGED <<now, requests, admitted, limit, gen, fuse,
                 srch, rr, fb, feedback, bus, loop>>

\* model is what CEReranker() loaded at line 74, if it loaded.
Answer ==
    /\ req.pc = "facets"
    /\ \E model \in IF req.loaded
                     THEN LoadedModels([i \in 1..Len(req.results) |->
                                           req.results[i].text])
                     ELSE {NoModel} :
           AnswerWith(model)

\* The response has been sent; the next request enters the handler.
Respond ==
    /\ req.pc = "done"
    /\ req' = Idle
    /\ UNCHANGED <<now, requests, admitted, ABSTAIN_COUNTER, limit, gen, fuse,
                 srch, rr, fb, feedback, bus, loop>>

\* The clock advances.
Tick(d) ==
    /\ now + d <= MaxTime
    /\ now' = now + d
    /\ UNCHANGED <<requests, admitted, req, ABSTAIN_COUNTER, limit, gen, fuse,
                 srch, rr, fb, feedback, bus, loop>>

NoCall == [pc |-> "none"]

\* The event loop with no ask coroutine on it; running = 0 when no coroutine
\* is executing.
NoTasks == [running |-> 0, tasks |-> [t \in Tasks |-> Idle]]

InitAsk ==
    /\ now = 0
    /\ requests = [c \in Clients |-> <<>>]
    /\ admitted = [c \in Clients |-> <<>>]
    /\ req = Idle
    /\ ABSTAIN_COUNTER = [l \in Reasons |-> 0]
    /\ limit = NoCall
    /\ gen = NoCall
    /\ fuse = NoCall
    /\ srch = Idle
    /\ rr = NoCall
    /\ fb = Idle
    /\ feedback = <<>>
    /\ bus = <<>>
    /\ loop = NoTasks

Init == InitAsk

Next ==
    \/ \E client_ip \in Clients, top_k \in 0..MaxTopK,
          ground \in BOOLEAN, loaded \in BOOLEAN :
           AskStart(client_ip, top_k, ground, loaded)
    \/ \E results \in AskLists(2) : LexicalReturn(results)
    \/ \E results \in AskLists(1) : DenseReturn(results)
    \/ FuseAndFacets
    \/ Answer
    \/ Respond
    \/ Tick(MaxTime)

Spec == Init /\ [][Next]_vars

(***************************************************************************)
(* The rate limiter on its own: is_allowed called for any client at any    *)
(* time, the clock advancing by uneven amounts in between.                 *)
(***************************************************************************)
IsAllowedCall(client_ip) ==
    LET r == is_allowed(requests, client_ip, now)
    IN  /\ requests' = r.requests
        /\ admitted' = IF r.allowed
                       THEN [admitted EXCEPT ![client_ip] = Append(@, now)]
                       ELSE admitted
        /\ limit' = [pc |-> "done", client |-> client_ip, at |-> now,
                     allowed |-> r.allowed]
        /\ UNCHANGED <<now, req, ABSTAIN_COUNTER, gen, fuse,
                 srch, rr, fb, feedback, bus, loop>>

NextRate ==
    \/ \E client_ip \in Clients : IsAllowedCall(client_ip)
    \/ \E d \in TickSteps : Tick(d)

SpecRate == InitAsk /\ [][NextRate]_vars

\* The same with a client that keeps sending requests and a clock that keeps
\* advancing (as far as the model's clock goes).
SpecRateFair ==
    /\ InitAsk
    /\ [][NextRate]_vars
    /\ WF_vars(\E client_ip \in Clients : IsAllowedCall(client_ip))
    /\ WF_vars(\E d \in TickSteps : Tick(d))

(***************************************************************************)
(* AnswerGenerator.generate called directly, as the unit tests do.         *)
(***************************************************************************)
\* Context dicts: with or without a rerank_score; texts empty, short and
\* longer than the stub's cut; and two that carry a chunk_id of their own.
GenContexts ==
    [text : {"", "x"}, rerank_score : ModelScores]
    \cup [text : {"", "x"}]
    \cup {[text |-> LongText, rerank_score |-> 30]}
    \cup [chunk_id : {"chunk_0", "chunk_1"}, text : {"x"}, rerank_score : {30}]

GenerateCall ==
    /\ gen.pc = "call"
    /\ LET g == generate(gen.contexts, gen.force_citations)
       IN  /\ gen' = [pc |-> "done", contexts |-> gen.contexts,
                      force_citations |-> gen.force_citations, out |-> g]
           /\ ABSTAIN_COUNTER' = Bump(ABSTAIN_COUNTER, g.incs)
    /\ UNCHANGED <<now, requests, admitted, req, limit, fuse,
                 srch, rr, fb, feedback, bus, loop>>

InitGen ==
    /\ now = 0
    /\ requests = [c \in Clients |-> <<>>]
    /\ admitted = [c \in Clients |-> <<>>]
    /\ req = Idle
    /\ ABSTAIN_COUNTER = [l \in Reasons |-> 0]
    /\ limit = NoCall
    /\ gen \in [pc : {"call"},
                contexts : SeqUpTo(GenContexts, MaxContexts),
                force_citations : BOOLEAN]
    /\ fuse = NoCall
    /\ srch = Idle
    /\ rr = NoCall
    /\ fb = Idle
    /\ feedback = <<>>
    /\ bus = <<>>
    /\ loop = NoTasks

NextGen == GenerateCall

SpecGen == InitGen /\ [][NextGen]_vars

(***************************************************************************)
(* HybridRetriever._rrf_fuse called directly, as the unit tests do.        *)
(***************************************************************************)
FuseCall ==
    /\ fuse.pc = "call"
    /\ fuse' = [pc |-> "done", bm25_results |-> fuse.bm25_results,
                dense_results |-> fuse.dense_results, top_k |-> fuse.top_k,
                out |-> _rrf_fuse(fuse.bm25_results, fuse.dense_results,
                                  fuse.top_k)]
    /\ UNCHANGED <<now, requests, admitted, req, ABSTAIN_COUNTER, limit, gen,
                 srch, rr, fb, feedback, bus, loop>>

InitFuse ==
    /\ now = 0
    /\ requests = [c \in Clients |-> <<>>]
    /\ admitted = [c \in Clients |-> <<>>]
    /\ req = Idle
    /\ ABSTAIN_COUNTER = [l \in Reasons |-> 0]
    /\ limit = NoCall
    /\ gen = NoCall
    /\ fuse \in [pc : {"call"},
                 bm25_results : SeqUpTo(Hits({"x"}, {2}), MaxListLen),
                 dense_results : SeqUpTo(Hits({"x"}, {1}), MaxListLen),
                 top_k : 0..(MaxTopK + 1)]
    /\ srch = Idle
    /\ rr = NoCall
    /\ fb = Idle
    /\ feedback = <<>>
    /\ bus = <<>>
    /\ loop = NoTasks

NextFuse == FuseCall

SpecFuse == InitFuse /\ [][NextFuse]_vars

(***************************************************************************)
(* The search handler (routes/search.py, search) with the retriever's     *)
(* search (rag/retriever.py) and the adapters' handling of a backend that  *)
(* fails (adapters/opensearch.py, adapters/qdrant.py). One request is in   *)
(* the handler at a time.                                                  *)
(***************************************************************************)
\* What a backend does with one call: no call reaches it (the adapter has no
\* client), it raises (an error or a timeout), or it answers.
NotCalled == [called |-> FALSE]
Raises == [called |-> TRUE, raises |-> TRUE]
Answers(value) == [called |-> TRUE, raises |-> FALSE, value |-> value]

\* How a coroutine ends for its caller: with a value or with an exception.
Return(value) == [raised |-> FALSE, value |-> value]
Raised == [raised |-> TRUE]

\* search_dense without its try / except: the backend's exception leaves.
search_dense_reraise(client, backend, size) ==
    IF ~client THEN Return(<<>>)
    ELSE IF backend.raises THEN Raised
    ELSE Return(Slice(backend.value, size))

\* QdrantAdapter.search_dense: the backend returns at most size hits.
search_dense(client, backend, size) ==
    IF ~client THEN Return(<<>>)
    ELSE IF backend.raises THEN Return(<<>>)
    ELSE Return(Slice(backend.value, size))

\* OpenSearchAdapter.search_bm25: the backend returns at most size hits.
search_bm25(client, backend, size) ==
    IF ~client THEN Return(<<>>)
    ELSE IF backend.raises THEN Return(<<>>)
    ELSE Return(Slice(backend.value, size))

\* The dict {} of facets.
NoFacets == <<>>

\* {bucket["key"]: bucket["doc_count"] for bucket in agg_data["buckets"]}
Buckets(buckets) ==
    [k \in {buckets[i].key : i \in 1..Len(buckets)} |->
        LET last == CHOOSE i \in 1..Len(buckets) :
                        /\ buckets[i].key = k
                        /\ \A j \in 1..Len(buckets) : buckets[j].key = k => j <= i
        IN  buckets[last].doc_count]

\* OpenSearchAdapter.get_facets: backend.value is response["aggregations"].
get_facets(client, backend) ==
    IF ~client THEN Return(NoFacets)
    ELSE IF backend.raises THEN Return(NoFacets)
    ELSE Return([facet_name \in DOMAIN backend.value |->
                    Buckets(backend.value[facet_name].buckets)])

\* The results in the order in which the coroutines completed.
gather_as_completed(completed, tasks) ==
    [i \in 1..Len(tasks) |-> completed[i].out]

\* asyncio.gather(*tasks): the results in the order of its arguments.
gather(completed, tasks) ==
    [i \in 1..Len(tasks) |->
        LET at == CHOOSE n \in 1..Len(completed) : completed[n].task = tasks[i]
        IN  completed[at].out]

\* except Exception as e: raise HTTPException(status_code=500, ...)
SearchExceptException(raised) == 500

\* Hit lists of a backend for a search request. The hits of one list are
\* different documents of an index keyed by chunk_id, the chunk ids being
\* derived from the doc ids: no fusion key repeats within a list.
SearchLists(score) ==
    {s \in SeqUpTo(Hits({"x"}, {score}), MaxListLen) : NoRepeatedKey(s)}

\* The aggregations a facet request is answered with.
Aggregations ==
    {[lang |-> [buckets |-> <<[key |-> "en", doc_count |-> 2]>>],
      tags |-> [buckets |-> <<>>]]}

\* What a backend may do with a call made with or without a client.
Outcomes(client, values) ==
    IF client THEN {Raises} \cup {Answers(v) : v \in values} ELSE {NotCalled}

\* Lines 24-49 and retriever.py 39-52 up to the await: HybridRetriever()
\* builds the adapters (each with a client, or with None when that failed)
\* and gather schedules both retrieval coroutines.
SearchStart(top_k, opensearch_client, qdrant_client) ==
    /\ srch.pc = "idle"
    /\ srch' = [pc |-> "retrieving", top_k |-> top_k,
                opensearch_client |-> opensearch_client,
                qdrant_client |-> qdrant_client,
                completed |-> <<>>,
                trace |-> <<"call bm25", "call dense">>]
    /\ UNCHANGED <<now, requests, admitted, req, ABSTAIN_COUNTER, limit, gen,
                   fuse, rr, fb, feedback, bus, loop>>

Completed(task) ==
    \E n \in 1..Len(srch.completed) : srch.completed[n].task = task

\* The search_bm25 coroutine completes.
SearchLexicalReturn(backend) ==
    /\ srch.pc = "retrieving"
    /\ ~Completed("bm25")
    /\ srch' = [srch EXCEPT
                   !.completed =
                       Append(@, [task |-> "bm25", backend |-> backend,
                                  out |-> search_bm25(srch.opensearch_client,
                                                      backend, srch.top_k * 2)]),
                   !.trace = Append(@, "return bm25")]
    /\ UNCHANGED <<now, requests, admitted, req, ABSTAIN_COUNTER, limit, gen,
                   fuse, rr, fb, feedback, bus, loop>>

\* The search_dense coroutine completes.
SearchDenseReturn(backend) ==
    /\ srch.pc = "retrieving"
    /\ ~Completed("dense")
    /\ srch' = [srch EXCEPT
                   !.completed =
                       Append(@, [task |-> "dense", backend |-> backend,
                                  out |-> search_dense(srch.qdrant_client,
                                                       backend, srch.top_k * 2)]),
                   !.trace = Append(@, "return dense")]
    /\ UNCHANGED <<now, requests, admitted, req, ABSTAIN_COUNTER, limit, gen,
                   fuse, rr, fb, feedback, bus, loop>>

\* retriever.py 52-64: gather has both results (or an exception), the lists
\* are fused and the facet call is made.
SearchFuse ==
    /\ srch.pc = "retrieving"
    /\ Completed("bm25") /\ Completed("dense")
    /\ LET got == gather(srch.completed, <<"bm25", "dense">>)
       IN  IF got[1].raised \/ got[2].raised
           THEN srch' = [pc |-> "done", top_k |-> srch.top_k,
                         opensearch_client |-> srch.opensearch_client,
                         qdrant_client |-> srch.qdrant_client,
                         completed |-> srch.completed,
                         trace |-> srch.trace,
                         status |-> SearchExceptException("gather")]
           ELSE srch' = [pc |-> "facets", top_k |-> srch.top_k,
                         opensearch_client |-> srch.opensearch_client,
                         qdrant_client |-> srch.qdrant_client,
                         completed |-> srch.completed,
                         bm25_results |-> got[1].value,
                         dense_results |-> got[2].value,
                         fused_results |-> _rrf_fuse(got[1].value, got[2].value,
                                                     srch.top_k),
                         trace |-> srch.trace \o <<"fuse", "call facets">>]
    /\ UNCHANGED <<now, requests, admitted, req, ABSTAIN_COUNTER, limit, gen,
                   fuse, rr, fb, feedback, bus, loop>>

\* retriever.py 64-71 and search.py 51-64: get_facets completes and the
\* handler returns the dict (or turns an exception into a 500).
SearchFacetsReturn(backend) ==
    /\ srch.pc = "facets"
    /\ LET facets == get_facets(srch.opensearch_client, backend)
       IN  srch' = [pc |-> "done", top_k |-> srch.top_k,
                    opensearch_client |-> srch.opensearch_client,
                    qdrant_client |-> srch.qdrant_client,
                    completed |-> srch.completed,
                    bm25_results |-> srch.bm25_results,
                    dense_results |-> srch.dense_results,
                    fused_results |-> srch.fused_results,
                    facets_backend |-> backend,
                    trace |-> Append(srch.trace, "return facets"),
                    status |-> IF facets.raised
                               THEN SearchExceptException("get_facets")
                               ELSE 200,
                    response |-> IF facets.raised THEN None
                                 ELSE [results |-> srch.fused_results,
                                       facets |-> facets.value,
                                       total |-> Len(srch.fused_results)]]
    /\ UNCHANGED <<now, requests, admitted, req, ABSTAIN_COUNTER, limit, gen,
                   fuse, rr, fb, feedback, bus, loop>>

\* The response has been sent; the next request enters the handler.
SearchRespond ==
    /\ srch.pc = "done"
    /\ srch' = Idle
    /\ UNCHANGED <<now, requests, admitted, req, ABSTAIN_COUNTER, limit, gen,
                   fuse, rr, fb, feedback, bus, loop>>

\* The lexical backend does what it does with the call, if one reaches it.
SearchLexical ==
    /\ srch.pc = "retrieving"
    /\ \E backend \in Outcomes(srch.opensearch_client, SearchLists(2)) :
           SearchLexicalReturn(backend)

SearchDense ==
    /\ srch.pc = "retrieving"
    /\ \E backend \in Outcomes(srch.qdrant_client, SearchLists(1)) :
           SearchDenseReturn(backend)

SearchFacets ==
    /\ srch.pc = "facets"
    /\ \E backend \in Outcomes(srch.opensearch_client, Aggregations) :
           SearchFacetsReturn(backend)

NextSearch ==
    \/ \E top_k \in 1..MaxTopK, opensearch_client \in BOOLEAN,
          qdrant_client \in BOOLEAN :
           SearchStart(top_k, opensearch_client, qdrant_client)
    \/ SearchLexical
    \/ SearchDense
    \/ SearchFuse
    \/ SearchFacets
    \/ SearchRespond

SpecSearch == InitAsk /\ [][NextSearch]_vars

(***************************************************************************)
(* CEReranker.rerank called directly, as the unit tests do: one reranker,  *)
(* called twice with the same candidates and top_k.                        *)
(***************************************************************************)
MaxCandidates == 3    \* longest candidates list given to rerank directly
RerankCalls == 2      \* calls made on the reranker

RerankTexts == {"x", "y", "z"}

RerankCall ==
    /\ rr.pc = "call"
    /\ LET outs == Append(rr.outs, rerank(rr.model, rr.candidates, rr.top_k))
       IN  rr' = [pc |-> IF Len(outs) = RerankCalls THEN "done" ELSE "call",
                  model |-> rr.model, candidates |-> rr.candidates,
                  top_k |-> rr.top_k, outs |-> outs]
    /\ UNCHANGED <<now, requests, admitted, req, ABSTAIN_COUNTER, limit, gen,
                   fuse, srch, fb, feedback, bus, loop>>

InitRerank ==
    /\ now = 0
    /\ requests = [c \in Clients |-> <<>>]
    /\ admitted = [c \in Clients |-> <<>>]
    /\ req = Idle
    /\ ABSTAIN_COUNTER = [l \in Reasons |-> 0]
    /\ limit = NoCall
    /\ gen = NoCall
    /\ fuse = NoCall
    /\ srch = Idle
    /\ \E candidates \in SeqUpTo(RerankTexts, MaxCandidates) :
           \E model \in {NoModel} \cup LoadedModels(candidates) :
               \E top_k \in 0..(MaxTopK + 1) :
                   rr = [pc |-> "call", model |-> model,
                         candidates |-> candidates, top_k |-> top_k,
                         outs |-> <<>>]
    /\ fb = Idle
    /\ feedback = <<>>
    /\ bus = <<>>
    /\ loop = NoTasks

NextRerank == RerankCall

SpecRerank == InitRerank /\ [][NextRerank]_vars

(***************************************************************************)
(* The feedback handler (routes/feedback.py, submit_feedback) with the     *)
(* store (adapters/postgres.py) and the producer (adapters/kafka.py). One  *)
(* request is in the handler at a time.                                    *)
(***************************************************************************)
MaxRows == 2          \* rows the feedback table holds at most in the model

valid_labels == {"click", "relevant", "not_relevant", "thumbs_up", "thumbs_down"}

\* The labels requests carry: two of the closed set, two outside it.
FeedbackLabels == {"click", "thumbs_down", "like", ""}

\* except Exception as e: raise HTTPException(status_code=500, ...).
\* HTTPException derives from Exception, so whatever the try body raises,
\* the handler's own HTTPException(400) included, leaves as a 500.
FeedbackExceptException(raised) == 500

\* PostgresAdapter.store_feedback: the INSERT ... RETURNING id appends a row
\* and returns its serial id, or the exception of the pool or of the
\* statement is logged and raised again.
store_feedback(table, outcome, row) ==
    IF outcome.raises
    THEN [raised |-> TRUE, table |-> table]
    ELSE LET id == Len(table) + 1
         IN  [raised |-> FALSE, value |-> id,
              table |-> Append(table, [id |-> id] @@ row)]

\* KafkaProducer.send_feedback_event, a plain (not async) method: False
\* without a producer or when produce / flush raises, else the message is
\* produced to search.events and True is returned.
send_feedback_event(events, producer, outcome, event_data) ==
    IF ~producer THEN [value |-> FALSE, events |-> events]
    ELSE IF outcome.raises THEN [value |-> FALSE, events |-> events]
    ELSE [value |-> TRUE,
          events |-> Append(events,
                            [topic |-> "search.events",
                             value |-> [event_type |-> "search.feedback"]
                                       @@ event_data])]

\* await applied to a bool: TypeError (object bool can't be used in 'await'
\* expression), raised after the awaited call itself has run.
AwaitBool(value) == Raised

\* FeedbackStart without the label check: store_feedback is awaited for
\* every label.
FeedbackStart_unvalidated(label, doc_id, chunk_id) ==
    /\ fb.pc = "idle"
    /\ Len(feedback) < MaxRows
    /\ fb' = [pc |-> "storing", label |-> label, doc_id |-> doc_id,
               chunk_id |-> chunk_id, calls |-> {"store_feedback"}]
    /\ UNCHANGED <<now, requests, admitted, req, ABSTAIN_COUNTER, limit, gen,
                   fuse, srch, rr, feedback, bus, loop>>

\* Lines 28-47 up to the await: the label is checked, and store_feedback is
\* awaited when it is one of valid_labels.
FeedbackStart(label, doc_id, chunk_id) ==
    /\ fb.pc = "idle"
    /\ Len(feedback) < MaxRows
    /\ IF label \notin valid_labels
       THEN fb' = [pc |-> "done", label |-> label, doc_id |-> doc_id,
                   chunk_id |-> chunk_id, raised |-> <<400>>,
                   status |-> FeedbackExceptException(400),
                   calls |-> {}]
       ELSE fb' = [pc |-> "storing", label |-> label, doc_id |-> doc_id,
                   chunk_id |-> chunk_id, calls |-> {"store_feedback"}]
    /\ UNCHANGED <<now, requests, admitted, req, ABSTAIN_COUNTER, limit, gen,
                   fuse, srch, rr, feedback, bus, loop>>

\* Lines 47-84, after store_feedback completed: the exception of the store
\* becomes a 500; else the event is sent and its bool is awaited.
FeedbackStoreReturn(store, producer, kafka) ==
    /\ fb.pc = "storing"
    /\ LET stored == store_feedback(feedback, store,
                                    [query |-> "q", doc_id |-> fb.doc_id,
                                     chunk_id |-> fb.chunk_id,
                                     label |-> fb.label, user_id |-> None])
       IN  IF stored.raised
           THEN /\ fb' = [pc |-> "done", label |-> fb.label,
                          doc_id |-> fb.doc_id, chunk_id |-> fb.chunk_id,
                          raised |-> <<"store_feedback">>,
                          status |-> FeedbackExceptException("store_feedback"),
                          calls |-> fb.calls]
                /\ UNCHANGED <<feedback, bus>>
           ELSE LET feedback_id == stored.value
                    sent == send_feedback_event(
                                bus, producer, kafka,
                                [feedback_id |-> feedback_id, query |-> "q",
                                 doc_id |-> fb.doc_id, chunk_id |-> fb.chunk_id,
                                 label |-> fb.label, user_id |-> None,
                                 timestamp |-> "now()"])
                    awaited == AwaitBool(sent.value)
                IN  /\ feedback' = stored.table
                    /\ bus' = sent.events
                    /\ fb' = IF awaited.raised
                             THEN [pc |-> "done", label |-> fb.label,
                                   doc_id |-> fb.doc_id, chunk_id |-> fb.chunk_id,
                                   raised |-> <<"TypeError">>,
                                   status |-> FeedbackExceptException("TypeError"),
                                   feedback_id |-> feedback_id,
                                   calls |-> fb.calls \cup {"send_feedback_event"}]
                             ELSE [pc |-> "done", label |-> fb.label,
                                   doc_id |-> fb.doc_id, chunk_id |-> fb.chunk_id,
                                   raised |-> <<>>, status |-> 200,
                                   feedback_id |-> feedback_id,
                                   response |-> [status |-> "success",
                                                 feedback_id |-> feedback_id],
                                   calls |-> fb.calls \cup {"send_feedback_event"}]
    /\ UNCHANGED <<now, requests, admitted, req, ABSTAIN_COUNTER, limit, gen,
                   fuse, srch, rr, loop>>

\* The store and the producer do what they do with the request.
FeedbackStore ==
    \E store \in {Raises, Answers("id")}, producer \in BOOLEAN,
       kafka \in {Raises, Answers("ack")} :
        /\ (producer \/ kafka = Raises)
        /\ FeedbackStoreReturn(store, producer, kafka)

\* The response has been sent; the next request enters the handler.
FeedbackRespond ==
    /\ fb.pc = "done"
    /\ fb' = Idle
    /\ UNCHANGED <<now, requests, admitted, req, ABSTAIN_COUNTER, limit, gen,
                   fuse, srch, rr, feedback, bus, loop>>

NextFeedback ==
    \/ \E label \in FeedbackLabels, doc_id \in {None, "a"},
          chunk_id \in {None, "c"} :
           FeedbackStart(label, doc_id, chunk_id)
    \/ FeedbackStore
    \/ FeedbackRespond

SpecFeedback == InitAsk /\ [][NextFeedback]_vars

(***************************************************************************)
(* Concurrent ask requests on the asyncio event loop. Each request is a    *)
(* coroutine of ask_question; its admission check is spelt out statement   *)
(* by statement, and what follows the check (the steps of Spec, which do   *)
(* not touch the rate limiter) is one suspension at the first await.       *)
(***************************************************************************)
\* A scheduler that may switch coroutines between any two statements.
CanStep_preemptive(t, resumes) == TRUE

\* The event loop runs one coroutine at a time and switches only where the
\* running one awaits or ends: a coroutine starts or resumes when none is
\* running, and the running one executes its next statement. is_allowed is a
\* plain def without an await, called without one.
CanStep(t, resumes) ==
    IF resumes THEN loop.running = 0 ELSE loop.running = t

SetTask(t, task, running) ==
    [running |-> running, tasks |-> [loop.tasks EXCEPT ![t] = task]]

\* ask.py 60-62 and 27-28: the handler calls is_allowed, which reads the
\* clock and looks up the client's deque.
TaskCall(t, client_ip) ==
    /\ loop.tasks[t].pc = "idle"
    /\ CanStep(t, TRUE)
    /\ loop' = SetTask(t, [pc |-> "evict", client |-> client_ip, now |-> now], t)
    /\ UNCHANGED <<now, requests, admitted, req, ABSTAIN_COUNTER, limit, gen,
                   fuse, srch, rr, fb, feedback, bus>>

\* ask.py 31-32: the while loop pops the expired timestamps.
TaskEvict(t) ==
    /\ loop.tasks[t].pc = "evict"
    /\ CanStep(t, FALSE)
    /\ LET task == loop.tasks[t]
       IN  /\ requests' = [requests EXCEPT
                              ![task.client] = Evict(@, task.now)]
           /\ loop' = SetTask(t, [task EXCEPT !.pc = "count"], t)
    /\ UNCHANGED <<now, admitted, req, ABSTAIN_COUNTER, limit, gen,
                   fuse, srch, rr, fb, feedback, bus>>

\* ask.py 35: if len(client_requests) < self.rate
TaskCount(t) ==
    /\ loop.tasks[t].pc = "count"
    /\ CanStep(t, FALSE)
    /\ LET task == loop.tasks[t]
       IN  loop' = SetTask(t, [task EXCEPT !.pc =
                                   IF Len(requests[task.client]) < rate
                                   THEN "append" ELSE "deny"], t)
    /\ UNCHANGED <<now, requests, admitted, req, ABSTAIN_COUNTER, limit, gen,
                   fuse, srch, rr, fb, feedback, bus>>

\* ask.py 36-37 and 66-82: the timestamp is appended, is_allowed returns
\* True and the handler runs on to its first await.
TaskAppend(t) ==
    /\ loop.tasks[t].pc = "append"
    /\ CanStep(t, FALSE)
    /\ LET task == loop.tasks[t]
       IN  /\ requests' = [requests EXCEPT ![task.client] = Append(@, task.now)]
           /\ admitted' = [admitted EXCEPT ![task.client] = Append(@, task.now)]
           /\ loop' = SetTask(t, [pc |-> "await", client |-> task.client,
                                  now |-> task.now, allowed |-> TRUE], 0)
    /\ UNCHANGED <<now, req, ABSTAIN_COUNTER, limit, gen,
                   fuse, srch, rr, fb, feedback, bus>>

\* ask.py 38, 63-64 and 117-122: is_allowed returns False and the handler
\* ends in its except branch, without an await.
TaskDeny(t) ==
    /\ loop.tasks[t].pc = "deny"
    /\ CanStep(t, FALSE)
    /\ LET task == loop.tasks[t]
       IN  loop' = SetTask(t, [pc |-> "done", client |-> task.client,
                               now |-> task.now, allowed |-> FALSE], 0)
    /\ UNCHANGED <<now, requests, admitted, req, ABSTAIN_COUNTER, limit, gen,
                   fuse, srch, rr, fb, feedback, bus>>

\* The suspended coroutine resumes and runs to its response, or the denied
\* one has sent its response: the coroutine is gone.
TaskEnd(t) ==
    /\ loop.tasks[t].pc \in {"await", "done"}
    /\ CanStep(t, TRUE)
    /\ loop' = SetTask(t, Idle, 0)
    /\ UNCHANGED <<now, requests, admitted, req, ABSTAIN_COUNTER, limit, gen,
                   fuse, srch, rr, fb, feedback, bus>>

NextConc ==
    \/ \E t \in Tasks, client_ip \in Clients : TaskCall(t, client_ip)
    \/ \E t \in Tasks : TaskEvict(t)
    \/ \E t \in Tasks : TaskCount(t)
    \/ \E t \in Tasks : TaskAppend(t)
    \/ \E t \in Tasks : TaskDeny(t)
    \/ \E t \in Tasks : TaskEnd(t)
    \/ Tick(MaxTime)

SpecConc == InitAsk /\ [][NextConc]_vars

(***************************************************************************)
(* Properties                                                              *)
(***************************************************************************)

\* The admissions of client c whose time lies in the window (t - 60, t].
InWindow(c, t) ==
    {i \in 1..Len(admitted[c]) :
        admitted[c][i] > t - window /\ admitted[c][i] <= t}

\* C1: per client, at most 10 admission times fall in any rolling 60-second
\* window (t - 60, t]; so a request arriving when the window already holds
\* 10 admissions is denied.
C1_AtMostRatePerWindow ==
    \A c \in Clients : \A t \in 0..MaxTime :
        Cardinality(InWindow(c, t)) <= rate

\* C1 witness: a call is denied while 10 admissions made at different times,
\* after earlier ones were evicted, fill the window ending now.
C1_Witness ==
    /\ limit.pc = "done"
    /\ ~limit.allowed
    /\ Cardinality(InWindow(limit.client, now)) = rate
    /\ Len(admitted[limit.client]) > rate
    /\ \E i \in InWindow(limit.client, now) : admitted[limit.client][i] < now

\* C2: a request the rate limiter denies is answered with status 429.
C2_DeniedGets429 ==
    (req.pc = "done" /\ ~req.allowed) => req.status = 429

\* C3: a denied request issued no lexical, dense, facet, rerank or generate
\* call, and a request that issued any call had been admitted before.
C3_DeniedConsumesNothing ==
    /\ (req.pc = "done" /\ ~req.allowed) => req.calls = {}
    /\ (req.pc # "idle" /\ req.calls # {}) => req.allowed

\* C3 witness: a denied request has been answered.
C3_Witness ==
    req.pc = "done" /\ ~req.allowed /\ req.raised = <<429>>

\* C4: every AskResponse is an abstention with a reason and no answer, or an
\* answer that is non-empty and, under ground = true, has a citation.
C4_ResponseShape ==
    (req.pc = "done" /\ req.status = 200) =>
        LET r == req.response
        IN  \/ r.abstained /\ r.reason # None /\ r.answer = None
            \/ /\ ~r.abstained
               /\ r.answer # None /\ r.answer # ""
               /\ (req.ground => r.citations # <<>>)

\* C4 witness: a grounded request was answered with citations.
C4_Witness ==
    /\ req.pc = "done" /\ req.status = 200
    /\ req.ground
    /\ ~req.response.abstained
    /\ req.response.citations # <<>>

\* The chunk_ids of the retrieved chunks whose text was given to the
\* generator as a context.
ContextChunks(results, contexts) ==
    {i \in 1..Len(results) :
        \E j \in 1..Len(contexts) : contexts[j].text = results[i].text}

\* C5: each citation of a non-abstained AskResponse names the chunk_id of one
\* of the contexts given to the generator, with a span inside that context.
C5_CitationsReferenceContexts ==
    (req.pc = "done" /\ req.status = 200 /\ ~req.response.abstained) =>
        \A n \in 1..Len(req.response.citations) :
            LET citation == req.response.citations[n]
            IN  \E i \in ContextChunks(req.results, req.contexts) :
                    /\ citation.chunk_id = req.results[i].chunk_id
                    /\ validate_citation_spans(citation, req.results[i].text)

\* The rerank score of context i, a missing score counting as 0.
ScoreAt(contexts, i) ==
    IF "rerank_score" \in DOMAIN contexts[i] THEN contexts[i].rerank_score ELSE 0

IsAbstention(result, reason) ==
    /\ "abstained" \in DOMAIN result /\ result.abstained
    /\ "reason" \in DOMAIN result /\ result.reason = reason

\* C6: non-empty contexts all scoring below 0.3 give the low_coverage
\* abstention without the synthesizer being invoked; with some score at or
\* above 0.3 the result is not a low_coverage abstention.
C6_CoverageGate ==
    (gen.pc = "done" /\ gen.contexts # <<>>) =>
        IF \A i \in 1..Len(gen.contexts) :
               ScoreAt(gen.contexts, i) < coverage_threshold
        THEN /\ gen.out.result = [abstained |-> TRUE, reason |-> "low_coverage"]
             /\ gen.out.synthesized = <<>>
        ELSE ~IsAbstention(gen.out.result, "low_coverage")

\* C6 witness: the gate closed on contexts of which one has no score, and
\* opened on contexts whose best score is exactly 0.3.
C6_Witness ==
    /\ gen.pc = "done" /\ gen.contexts # <<>>
    /\ \A i \in 1..Len(gen.contexts) :
           ScoreAt(gen.contexts, i) < coverage_threshold
    /\ \E i \in 1..Len(gen.contexts) : "rerank_score" \notin DOMAIN gen.contexts[i]
    /\ IsAbstention(gen.out.result, "low_coverage")

\* C7: generate with an empty contexts list abstains with reason no_results.
C7_EmptyContextsNoResults ==
    (gen.pc = "done" /\ gen.contexts = <<>>) =>
        IsAbstention(gen.out.result, "no_results")

\* A synthesized answer breaks the citation contract: a citation names no
\* supplied context or has a span outside the context it names, or a
\* non-empty answer has no citation.
BreaksCitationContract(answer_result, contexts) ==
    \/ \E n \in 1..Len(answer_result.citations) :
           LET citation == answer_result.citations[n]
           IN  ~\E i \in 1..Len(contexts) :
                   /\ "chunk_id" \in DOMAIN contexts[i]
                   /\ contexts[i].chunk_id = citation.chunk_id
                   /\ validate_citation_spans(citation, contexts[i].text)
    \/ answer_result.citations = <<>> /\ answer_result.answer # ""

\* C8: with force_citations, a synthesized answer that breaks the citation
\* contract is replaced by the validation_fail abstention.
C8_ValidationGate ==
    (/\ gen.pc = "done"
     /\ gen.force_citations
     /\ gen.out.synthesized # <<>>
     /\ ~Get(gen.out.synthesized[1], "abstained", FALSE)
     /\ BreaksCitationContract(gen.out.synthesized[1], gen.contexts))
    => gen.out.result = [abstained |-> TRUE, reason |-> "validation_fail"]

\* C9: an abstained response incremented the abstain counter exactly once,
\* with its reason as label; any other response did not increment it.
C9_AbstainCountedOnce ==
    (req.pc = "done" /\ req.status = 200) =>
        IF req.response.abstained
        THEN req.incs = <<req.response.reason>>
        ELSE req.incs = <<>>

\* The ranks at which the pair (doc_id, chunk_id) occurs in a result list.
RanksOf(list, doc_id, chunk_id) ==
    {r \in 1..Len(list) : list[r].doc_id = doc_id /\ list[r].chunk_id = chunk_id}

\* The scores the claim allows a pair: one term 1/(k_rrf + rank) per list the
\* pair occurs in, at a rank at which it occurs there.
OncePerListScores(bm25_results, dense_results, doc_id, chunk_id) ==
    LET rb == RanksOf(bm25_results, doc_id, chunk_id)
        rd == RanksOf(dense_results, doc_id, chunk_id)
    IN  {(IF b = 0 THEN 0 ELSE RrfTerm(b)) + (IF d = 0 THEN 0 ELSE RrfTerm(d)) :
            b \in (IF rb = {} THEN {0} ELSE rb), d \in (IF rd = {} THEN {0} ELSE rd)}

\* C10: the fusion score of every returned pair is the sum, over the lists
\* the pair occurs in, of one term 1/(k_rrf + rank), also when a key repeats
\* inside a list.
C10_OncePerList ==
    fuse.pc = "done" =>
        \A n \in 1..Len(fuse.out) :
            fuse.out[n].score \in
                OncePerListScores(fuse.bm25_results, fuse.dense_results,
                                  fuse.out[n].doc_id, fuse.out[n].chunk_id)

\* The (doc_id, chunk_id) pair of a hit or of a fused entry.
PairOf(x) == <<x.doc_id, x.chunk_id>>

PairsOf(list) == {PairOf(list[i]) : i \in 1..Len(list)}

PairSeq(list) == [i \in 1..Len(list) |-> PairOf(list[i])]

\* C11: the fused list never holds two entries with the same
\* (doc_id, chunk_id) pair, whatever the two backend lists are: a pair
\* returned by both backends, or more than once by one, has one entry.
C11_NoDuplicatePairs ==
    fuse.pc = "done" =>
        \A i, j \in 1..Len(fuse.out) :
            i # j => PairOf(fuse.out[i]) # PairOf(fuse.out[j])

\* C11 witness: a chunk returned by both backends, twice by the dense one,
\* next to another chunk; the fused list has the two chunks.
C11_Witness ==
    /\ fuse.pc = "done"
    /\ Len(fuse.bm25_results) = 2 /\ Len(fuse.dense_results) = 2
    /\ PairOf(fuse.dense_results[1]) = PairOf(fuse.dense_results[2])
    /\ PairOf(fuse.dense_results[1]) \in PairsOf(fuse.bm25_results)
    /\ Len(fuse.out) = 2
    /\ \E n \in 1..2 :
           /\ PairOf(fuse.out[n]) = PairOf(fuse.dense_results[1])
           /\ fuse.out[n].bm25_rank # NoRank
           /\ fuse.out[n].dense_rank # NoRank

\* A missing rank counts as +infinity: it is larger than every rank.
RankOrInf(rank) == IF rank = NoRank THEN MaxListLen + 1 ELSE rank

\* The chunk ids in lexicographic order.
ChunkIdOrder == <<"b:c", "c">>

ChunkIdLeq(a, b) ==
    \E i, j \in 1..Len(ChunkIdOrder) :
        ChunkIdOrder[i] = a /\ ChunkIdOrder[j] = b /\ i <= j

\* The order the claim gives two fused entries x before y.
RankedBefore(x, y) ==
    \/ x.score > y.score
    \/ /\ x.score = y.score
       /\ LET bx == RankOrInf(x.bm25_rank)
              by == RankOrInf(y.bm25_rank)
              dx == RankOrInf(x.dense_rank)
              dy == RankOrInf(y.dense_rank)
          IN  \/ bx < by
              \/ bx = by /\ dx < dy
              \/ bx = by /\ dx = dy /\ ChunkIdLeq(x.chunk_id, y.chunk_id)

\* Lexical [c1, c2] and dense [c2, c3], three different keys, top_k = 3.
IsSharedMiddle(f) ==
    /\ Len(f.bm25_results) = 2 /\ Len(f.dense_results) = 2
    /\ f.top_k = 3
    /\ PairOf(f.bm25_results[2]) = PairOf(f.dense_results[1])
    /\ Cardinality({RrfKey(f.bm25_results[1]), RrfKey(f.bm25_results[2]),
                    RrfKey(f.dense_results[2])}) = 3

\* C12: for lists without a repeated key the fused list is ordered by score
\* descending, ties by (bm25_rank, dense_rank) ascending with a missing rank
\* as +infinity, then by chunk_id; lexical [c1, c2] with dense [c2, c3] gives
\* [c2, c1, c3].
C12_FusedOrder ==
    (/\ fuse.pc = "done"
     /\ NoRepeatedKey(fuse.bm25_results)
     /\ NoRepeatedKey(fuse.dense_results))
    => /\ \A i, j \in 1..Len(fuse.out) :
              i < j => RankedBefore(fuse.out[i], fuse.out[j])
       /\ IsSharedMiddle(fuse) =>
              PairSeq(fuse.out) = <<PairOf(fuse.bm25_results[2]),
                                    PairOf(fuse.bm25_results[1]),
                                    PairOf(fuse.dense_results[2])>>

\* C12 witness: the example's lists were fused, and its last two entries
\* show a lexical-only entry ahead of a lower-scored dense-only one.
C12_Witness ==
    /\ fuse.pc = "done"
    /\ IsSharedMiddle(fuse)
    /\ Len(fuse.out) = 3
    /\ fuse.out[2].dense_rank = NoRank
    /\ fuse.out[3].bm25_rank = NoRank

\* C13: the fused list has min(top_k, number of distinct (doc_id, chunk_id)
\* pairs in the two lists) entries; two empty lists give the empty list.
C13_OutputSize ==
    fuse.pc = "done" =>
        Len(fuse.out) =
            Min(fuse.top_k,
                Cardinality(PairsOf(fuse.bm25_results)
                            \cup PairsOf(fuse.dense_results)))

\* C14: with one list empty and the other without a repeated key, the fused
\* list names the chunks of the other list in its order, cut to top_k.
C14_SingleListOrder ==
    fuse.pc = "done" =>
        /\ (fuse.dense_results = <<>> /\ NoRepeatedKey(fuse.bm25_results))
           => PairSeq(fuse.out) = Slice(PairSeq(fuse.bm25_results), fuse.top_k)
        /\ (fuse.bm25_results = <<>> /\ NoRepeatedKey(fuse.dense_results))
           => PairSeq(fuse.out) = Slice(PairSeq(fuse.dense_results), fuse.top_k)

\* C14 witness: two dense hits and no lexical one, fused without a cut.
C14_Witness ==
    /\ fuse.pc = "done"
    /\ fuse.bm25_results = <<>>
    /\ Len(fuse.dense_results) = 2
    /\ NoRepeatedKey(fuse.dense_results)
    /\ Len(fuse.out) = 2
    /\ PairSeq(fuse.out) = PairSeq(fuse.dense_results)

\* The entry of the completed retrieval coroutine task.
CompletedEntry(task) ==
    srch.completed[CHOOSE n \in 1..Len(srch.completed) :
                       srch.completed[n].task = task]

\* The call failed: it reached no backend, or the backend raised.
Failed(backend) == ~backend.called \/ backend.raises

At(event) ==
    IF \E n \in 1..Len(srch.trace) : srch.trace[n] = event
    THEN CHOOSE n \in 1..Len(srch.trace) : srch.trace[n] = event
    ELSE 0

\* Event a is in the trace whenever b is, and ahead of it.
Precedes(a, b) == At(b) # 0 => (At(a) # 0 /\ At(a) < At(b))

\* C16: both retrieval calls are issued before either returns, fusion starts
\* after both have returned, the facet call after fusion, and the fused list
\* is that of the lexical and the dense result whichever returned first.
C16_ParallelJoin ==
    srch.pc # "idle" =>
        /\ \A call \in {"call bm25", "call dense"} :
               \A return \in {"return bm25", "return dense"} :
                   At(call) # 0 /\ Precedes(call, return)
        /\ Precedes("return bm25", "fuse")
        /\ Precedes("return dense", "fuse")
        /\ Precedes("fuse", "call facets")
        /\ Precedes("call facets", "return facets")
        /\ "fused_results" \in DOMAIN srch =>
               /\ At("fuse") # 0
               /\ srch.fused_results =
                      _rrf_fuse(CompletedEntry("bm25").out.value,
                                CompletedEntry("dense").out.value, srch.top_k)

\* C16 witness: the dense call returned before the lexical one, with
\* different hits, and the request was answered from both.
C16_Witness ==
    /\ srch.pc = "done"
    /\ srch.status = 200
    /\ At("return dense") < At("return bm25")
    /\ srch.bm25_results # <<>> /\ srch.dense_results # <<>>
    /\ PairSeq(srch.bm25_results) # PairSeq(srch.dense_results)
    /\ \E n \in 1..Len(srch.response.results) :
           srch.response.results[n].bm25_rank # srch.response.results[n].dense_rank

\* How often text t occurs among the texts of a list.
Occurrences(texts, t) == Cardinality({i \in 1..Len(texts) : texts[i] = t})

TextsOf(out) == [i \in 1..Len(out) |-> out[i].text]

\* C17: rerank returns min(top_k, len(candidates)) items, and no text more
\* often than the candidates hold it, with the model scoring and on the
\* fallback path.
C17_RerankPreserves ==
    rr.pc # "none" =>
        \A n \in 1..Len(rr.outs) :
            LET out == rr.outs[n]
            IN  /\ Len(out) = Min(rr.top_k, Len(rr.candidates))
                /\ \A i \in 1..Len(out) :
                       /\ Occurrences(rr.candidates, out[i].text) > 0
                       /\ Occurrences(TextsOf(out), out[i].text)
                              <= Occurrences(rr.candidates, out[i].text)

\* C17 witness: the model scored three candidates, one text twice, and the
\* two returned are not the first two in input order.
C17_Witness ==
    /\ rr.pc = "done"
    /\ rr.model.loaded /\ ~rr.model.raises
    /\ Len(rr.candidates) = 3
    /\ rr.candidates[1] = rr.candidates[3]
    /\ rr.top_k = 2
    /\ TextsOf(rr.outs[1]) = <<rr.candidates[2], rr.candidates[1]>>

\* The model scored the candidates: it loaded and predict did not raise.
Scored == rr.pc # "none" /\ rr.model.loaded /\ rr.candidates # <<>>
          /\ ~rr.model.raises

\* out lists the candidates at the positions p, by score descending and, for
\* equal scores, in input order; every candidate left out scores lower than
\* all of out, or equal to some and then comes later in the input.
IsStableTop(out, p) ==
    LET score(q) == rr.model.score[rr.candidates[q]]
    IN  /\ \A i \in 1..Len(out) :
               out[i] = [text |-> rr.candidates[p[i]],
                         rerank_score |-> score(p[i])]
        /\ \A i, j \in 1..Len(out) :
               i < j => \/ score(p[i]) > score(p[j])
                        \/ score(p[i]) = score(p[j]) /\ p[i] < p[j]
        /\ \A q \in 1..Len(rr.candidates) :
               (\A i \in 1..Len(out) : p[i] # q) =>
                   \A i \in 1..Len(out) :
                       \/ score(q) < score(p[i])
                       \/ score(q) = score(p[i]) /\ p[i] < q

\* C18: when the model scores, the output is ordered by rerank_score
\* descending, holds the best-scored candidates, keeps the input order of
\* candidates with equal scores, and a second call returns the same list.
C18_RerankOrder ==
    Scored =>
        /\ \A n \in 1..Len(rr.outs) :
               \E p \in [1..Len(rr.outs[n]) -> 1..Len(rr.candidates)] :
                   IsStableTop(rr.outs[n], p)
        /\ \A n, m \in 1..Len(rr.outs) : rr.outs[n] = rr.outs[m]

\* C18 witness: three candidates, the first scored below the other two, which
\* tie; both calls returned the tied two in input order, then the first.
C18_Witness ==
    /\ Scored
    /\ rr.pc = "done"
    /\ Len(rr.candidates) = 3 /\ rr.top_k = 3
    /\ rr.model.score[rr.candidates[1]] < rr.model.score[rr.candidates[2]]
    /\ rr.model.score[rr.candidates[2]] = rr.model.score[rr.candidates[3]]
    /\ rr.candidates[2] # rr.candidates[3]
    /\ TextsOf(rr.outs[2]) =
           <<rr.candidates[2], rr.candidates[3], rr.candidates[1]>>

\* C19: when the model did not load or predict raises, rerank returns the
\* first top_k candidates in input order, each with rerank_score 0.0.
C19_RerankFallback ==
    (rr.pc # "none" /\ (~rr.model.loaded \/ rr.model.raises)) =>
        \A n \in 1..Len(rr.outs) :
            rr.outs[n] =
                [i \in 1..Min(rr.top_k, Len(rr.candidates)) |->
                    [text |-> rr.candidates[i], rerank_score |-> 0]]

\* C19 witness: predict raised on three candidates and the first two were
\* returned.
C19_Witness ==
    /\ rr.pc = "done"
    /\ rr.model.loaded /\ rr.model.raises
    /\ Len(rr.candidates) = 3 /\ rr.top_k = 2
    /\ TextsOf(rr.outs[1]) = <<rr.candidates[1], rr.candidates[2]>>
    /\ rr.outs[1][1].rerank_score = 0

\* C20: a feedback submission whose label is outside the closed set is
\* answered with status 400.
C20_InvalidLabel400 ==
    (fb.pc = "done" /\ fb.label \notin valid_labels) => fb.status = 400

\* The request in the handler has ended and its record is in the table.
Persisted ==
    /\ fb.pc = "done"
    /\ "feedback_id" \in DOMAIN fb
    /\ \E i \in 1..Len(feedback) : feedback[i].id = fb.feedback_id

\* The event of the request in the handler is on the bus.
Emitted ==
    /\ "feedback_id" \in DOMAIN fb
    /\ \E i \in 1..Len(bus) : bus[i].value.feedback_id = fb.feedback_id

\* C21: a submission whose label is outside the closed set reaches neither
\* the store nor the producer: no row and no event carries such a label, and
\* the request ends without either call.
C21_InvalidLabelWritesNothing ==
    /\ \A i \in 1..Len(feedback) : feedback[i].label \in valid_labels
    /\ \A i \in 1..Len(bus) : bus[i].value.label \in valid_labels
    /\ (fb.pc # "idle" /\ fb.label \notin valid_labels) =>
           /\ fb.pc = "done"
           /\ fb.calls = {}

\* C21 witness: a submission with a label outside the set has ended while the
\* table and the bus hold what an earlier submission left there.
C21_Witness ==
    /\ fb.pc = "done"
    /\ fb.label \notin valid_labels
    /\ fb.raised = <<400>>
    /\ Len(feedback) = 1
    /\ Len(bus) = 1

\* C22: a submission with a valid label whose record the store persisted is
\* answered with status "success" and the feedback_id the store returned.
C22_StoredGetsSuccess ==
    Persisted =>
        /\ fb.status = 200
        /\ "response" \in DOMAIN fb
        /\ fb.response = [status |-> "success", feedback_id |-> fb.feedback_id]

\* C23: when the record is persisted and the event could not be emitted, the
\* request is still answered as a success.
C23_EmitFailureStillSuccess ==
    (Persisted /\ ~Emitted) => (fb.status = 200 /\ "response" \in DOMAIN fb)

\* C28: a request answered with an error status has no record in the table.
C28_ErrorMeansNotPersisted ==
    (fb.pc = "done" /\ fb.status >= 400) => ~Persisted

\* The hits of the two lists handed to _rrf_fuse.
HitsOf(call) ==
    {call.bm25_results[i] : i \in 1..Len(call.bm25_results)}
        \cup {call.dense_results[i] : i \in 1..Len(call.dense_results)}

\* C29: hits whose (doc_id, chunk_id) pairs differ have different fusion
\* keys, also when an identifier contains ':', so with top_k at least the
\* number of distinct pairs every pair has its own entry in the fused list.
C29_DistinctPairsDistinctKeys ==
    fuse.pc = "done" =>
        /\ \A x, y \in HitsOf(fuse) :
               PairOf(x) # PairOf(y) => RrfKey(x) # RrfKey(y)
        /\ fuse.top_k >= Cardinality(PairsOf(fuse.bm25_results)
                                     \cup PairsOf(fuse.dense_results))
           => PairsOf(fuse.out) = PairsOf(fuse.bm25_results)
                                      \cup PairsOf(fuse.dense_results)

\* The cross-encoder failed to load, or its predict raises.
Unavailable(model) == ~model.loaded \/ model.raises

\* C27: an admitted request with retrieval results and an unavailable
\* cross-encoder is answered with the low_coverage abstention: every context
\* has the fallback score 0, below the coverage threshold, and no answer or
\* citation is returned.
C27_UnavailableModelAbstains ==
    (req.pc = "done" /\ req.allowed /\ req.results # <<>>
         /\ Unavailable(req.model)) =>
        /\ \A i \in 1..Len(req.contexts) :
               req.contexts[i].rerank_score < coverage_threshold
        /\ req.status = 200
        /\ req.response =
               AskResponse([abstained |-> TRUE, reason |-> "low_coverage"])

\* C27 witness: the model was loaded and its predict raised on a request with
\* top_k = 2 and two retrieved chunks; both came back as contexts and the
\* response is the abstention.
C27_Witness ==
    /\ req.pc = "done" /\ req.allowed
    /\ Len(req.results) = 2
    /\ req.model.loaded /\ req.model.raises
    /\ Len(req.contexts) = 2
    /\ req.response.abstained
    /\ req.response.reason = "low_coverage"

\* C24: serving an ask request triggers no load of the cross-encoder model:
\* the model is the one loaded at startup.
C24_NoLoadWhileServing ==
    req.pc # "idle" => "CrossEncoder" \notin req.calls

\* The admission time of the request in the handler: the timestamp that
\* is_allowed appended for it.
StartedAt == requests[req.client][Len(requests[req.client])]

\* C25: a request carries a deadline (here any deadline of at most MaxTime
\* seconds): once it has expired with a retrieval or facet call in flight,
\* the only step of the request is its end in a timeout response without
\* results.
C25_DeadlineEnforced ==
    [][(/\ req.pc \in {"retrieving", "facets"}
        /\ now - StartedAt >= MaxTime
        /\ req' # req)
       => (/\ req'.pc = "done"
           /\ req'.status # 200
           /\ "results" \notin DOMAIN req')]_vars

\* Coroutine t is inside is_allowed.
InCheck(t) == loop.tasks[t].pc \in {"evict", "count", "append", "deny"}

\* C26: no two ask coroutines are inside the admission check at once, the
\* one inside is the one the event loop is running, and so, however the
\* concurrent requests of a client are scheduled, its deque never holds more
\* than 10 timestamps and no window (t - 60, t] more than 10 admissions.
C26_MutualExclusion ==
    /\ \A t, u \in Tasks : (InCheck(t) /\ InCheck(u)) => t = u
    /\ \A t \in Tasks : InCheck(t) => loop.running = t
    /\ \A c \in Clients :
           /\ Len(requests[c]) <= rate
           /\ \A t \in 0..MaxTime : Cardinality(InWindow(c, t)) <= rate

\* C26 witness: one request of the client is suspended at its await, admitted
\* as the tenth of the window, while another is in the admission check and
\* has found the deque full.
C26_Witness ==
    \E t, u \in Tasks :
        /\ loop.tasks[t].pc = "await"
        /\ loop.tasks[u].pc = "deny"
        /\ loop.tasks[u].client = loop.tasks[t].client
        /\ loop.tasks[u].now = loop.tasks[t].now
        /\ Len(requests[loop.tasks[u].client]) = rate
        /\ Cardinality(InWindow(loop.tasks[u].client, now)) = rate

\* The admission times of client c that a call at time t finds in its
\* window: those newer than t - 60.
Recent(c, t) ==
    LET InTime(x) == x > t - window
    IN  SelectSeq(admitted[c], InTime)

\* The admissions of the client before the last call.
Prior ==
    IF limit.allowed
    THEN SubSeq(admitted[limit.client], 1, Len(admitted[limit.client]) - 1)
    ELSE admitted[limit.client]

\* After a call the deque holds the admission times newer than the call's
\* time minus 60, and nothing else: a denied call has left no timestamp. The
\* call was admitted exactly if fewer than 10 earlier admissions were that new.
DeniedLeavesNoTrace ==
    limit.pc = "done" =>
        /\ requests[limit.client] = Recent(limit.client, limit.at)
        /\ limit.allowed <=>
               LET InTime(x) == x > limit.at - window
               IN  Len(SelectSeq(Prior, InTime)) < rate

\* The time the advancing clock is certain to reach before it stops.
ClockEnd ==
    MaxTime + 1 - (CHOOSE d \in TickSteps : \A e \in TickSteps : d <= e)

\* C30: a denied request records no timestamp, so denials do not extend the
\* lockout: a client that keeps calling while time advances is admitted
\* again after a denial (stated for denials a window before the end of the
\* model's clock).
C30_NeverDeniedForever ==
    /\ []DeniedLeavesNoTrace
    /\ (limit.pc = "done" /\ ~limit.allowed /\ limit.at + window <= ClockEnd)
           ~> (limit.pc = "done" /\ limit.allowed)

\* C30 witness: a call is denied 59 seconds after the ten admissions that
\* fill its window; the deque still holds those ten timestamps and no other.
C30_Witness ==
    /\ limit.pc = "done"
    /\ ~limit.allowed
    /\ limit.at = now
    /\ Len(requests[limit.client]) = rate
    /\ requests[limit.client] = admitted[limit.client]
    /\ \A i \in 1..rate : requests[limit.client][i] = limit.at - (window - 1)

====
